---------------------------- MODULE Spec2Model ----------------------------
(***************************************************************************)
(* Model of amt_transcription/backend.py: the amount extractor             *)
(* extract_amount (a pure function from a transcript to an integer or      *)
(* None) and the /transcribe request handler transcribe_audio.             *)
(*                                                                         *)
(* A transcript is a sequence of characters; a character is a one-letter   *)
(* string.  The atom "dotless_i" stands for the single character U+0131    *)
(* (LATIN SMALL LETTER DOTLESS I), a non-ASCII letter that Python's        *)
(* str.lower() leaves alone and whose str.upper() is "I".                  *)
(***************************************************************************)
EXTENDS Integers, Sequences, FiniteSets, TLC

VARIABLES
    text,             \* extract_amount's argument
    result,           \* what extract_amount(text) returned / raised
    variant,          \* a second transcript, an edited copy of text
    vresult,          \* what extract_amount(variant) returned / raised
    pc,               \* "input" | "edit" | "done"
    steps,            \* pieces appended / edits made so far
    mode,             \* which family of inputs the behaviour draws
    n,                \* the integer whose cardinal phrase text spells (round trip)
    hpc,              \* transcribe_audio: position in the handler
    has_audio,        \* 'audio' in request.files
    created,          \* the temporary file has been created
    exists,           \* the temporary file exists on disk
    transcribed,      \* "no" | "ok" | "failed": outcome of model.transcribe
    transcribed_text, \* result["text"]
    amount,           \* extract_amount(transcribed_text)
    pending,          \* what the inner try block is leaving with
    response,         \* the response returned to the client
    responses,        \* number of responses returned
    transcribe_calls  \* number of calls of model.transcribe

vars == <<text, result, variant, vresult, pc, steps, mode, n, hpc, has_audio,
          created, exists, transcribed, transcribed_text, amount, pending,
          response, responses, transcribe_calls>>

extractor_vars == <<text, result, variant, vresult, pc, steps, mode, n>>

handler_vars == <<hpc, has_audio, created, exists, transcribed, transcribed_text,
                  amount, pending, response, responses, transcribe_calls>>

---------------------------------------------------------------------------
(* Bounds of the model *)

\* pieces appended to a seed transcript
MaxPieces == 2

\* edits (filler insertions/removals, punctuation marks, case changes) of a variant
MaxEdits == 2

\* the three-digit groups 0..MaxSmallGroup are all spelled out in the round trip
MaxSmallGroup == 21

---------------------------------------------------------------------------
(* Python values *)

\* the value None
None == [tag |-> "None"]

\* an int object
PyInt(v) == [tag |-> "int", val |-> v]

\* a raised ValueError
ValueError == [tag |-> "raise", exc |-> "ValueError"]

\* no call made yet
Unset == [tag |-> "unset"]

\* no response returned yet
NoResponse == [status |-> 0, body |-> [none |-> TRUE]]

---------------------------------------------------------------------------
(* Characters *)

DIGITS == <<"0", "1", "2", "3", "4", "5", "6", "7", "8", "9">>

ASCII_UPPER == <<"A", "B", "C", "D", "E", "F", "G", "H", "I", "J", "K", "L", "M",
                 "N", "O", "P", "Q", "R", "S", "T", "U", "V", "W", "X", "Y", "Z">>

ASCII_LOWER == <<"a", "b", "c", "d", "e", "f", "g", "h", "i", "j", "k", "l", "m",
                 "n", "o", "p", "q", "r", "s", "t", "u", "v", "w", "x", "y", "z">>

Range(s) == {s[i] : i \in DOMAIN s}

\* \d
IsDigit(c) == c \in Range(DIGITS)

IsAsciiLetter(c) == c \in Range(ASCII_UPPER) \cup Range(ASCII_LOWER)

\* a letter: str.isalpha()
IsAlpha(c) == IsAsciiLetter(c) \/ c = "dotless_i"

\* \s and the separators of str.split()
IsSpace(c) == c \in {" ", "\t", "\n"}

\* \w: alphanumeric characters and the underscore
IsWordChar(c) == IsAlpha(c) \/ IsDigit(c) \/ c = "_"

\* str.lower() on one character, as a mutant would leave it: unchanged
char_lower_identity(c) == c

\* str.lower() on one character
char_lower(c) ==
    IF c \in Range(ASCII_UPPER)
    THEN ASCII_LOWER[CHOOSE i \in DOMAIN ASCII_UPPER : ASCII_UPPER[i] = c]
    ELSE c

\* str.upper() on one character
char_upper(c) ==
    IF c \in Range(ASCII_LOWER)
    THEN ASCII_UPPER[CHOOSE i \in DOMAIN ASCII_LOWER : ASCII_LOWER[i] = c]
    ELSE IF c = "dotless_i" THEN "I" ELSE c

---------------------------------------------------------------------------
(* extract_amount, line by line *)

\* CPython's default limit on the digits of a str -> int conversion
\* (sys.int_info.default_max_str_digits): int() raises ValueError beyond it
int_max_str_digits == 4300

HasDigit(s) == \E i \in DOMAIN s : IsDigit(s[i])

\* index of the first digit of s at or after position from (one exists)
FirstDigit(s, from) ==
    CHOOSE i \in from..Len(s) :
        IsDigit(s[i]) /\ \A k \in from..(i - 1) : ~IsDigit(s[k])

\* last index of the maximal digit run of s that starts at i
RunEnd(s, i) ==
    CHOOSE j \in i..Len(s) :
        (j = Len(s) \/ ~IsDigit(s[j + 1])) /\ \A k \in i..j : IsDigit(s[k])

RECURSIVE findall_from(_, _)
findall_from(s, from) ==
    IF \A i \in from..Len(s) : ~IsDigit(s[i])
    THEN <<>>
    ELSE LET i == FirstDigit(s, from)
             j == RunEnd(s, i)
         IN  <<SubSeq(s, i, j)>> \o findall_from(s, j + 1)

\* re.findall(r'\d+', text): the maximal digit runs, left to right
re_findall_digits(s) == findall_from(s, 1)

DigitValue(c) == (CHOOSE i \in DOMAIN DIGITS : DIGITS[i] = c) - 1

RECURSIVE DecimalValue(_)
DecimalValue(s) ==
    IF s = <<>> THEN 0
    ELSE 10 * DecimalValue(SubSeq(s, 1, Len(s) - 1)) + DigitValue(s[Len(s)])

\* int(s) for a string of decimal digits
int(s) ==
    IF Len(s) > int_max_str_digits THEN ValueError ELSE PyInt(DecimalValue(s))

words_to_numbers ==
    (<<"z", "e", "r", "o">> :> 0) @@ (<<"o", "n", "e">> :> 1) @@ (<<"t", "w", "o">> :> 2) @@ (<<"t", "h", "r", "e", "e">> :> 3) @@
    (<<"f", "o", "u", "r">> :> 4) @@ (<<"f", "i", "v", "e">> :> 5) @@ (<<"s", "i", "x">> :> 6) @@ (<<"s", "e", "v", "e", "n">> :> 7) @@
    (<<"e", "i", "g", "h", "t">> :> 8) @@ (<<"n", "i", "n", "e">> :> 9) @@ (<<"t", "e", "n">> :> 10) @@ (<<"e", "l", "e", "v", "e", "n">> :> 11) @@
    (<<"t", "w", "e", "l", "v", "e">> :> 12) @@ (<<"t", "h", "i", "r", "t", "e", "e", "n">> :> 13) @@ (<<"f", "o", "u", "r", "t", "e", "e", "n">> :> 14) @@
    (<<"f", "i", "f", "t", "e", "e", "n">> :> 15) @@ (<<"s", "i", "x", "t", "e", "e", "n">> :> 16) @@ (<<"s", "e", "v", "e", "n", "t", "e", "e", "n">> :> 17) @@
    (<<"e", "i", "g", "h", "t", "e", "e", "n">> :> 18) @@ (<<"n", "i", "n", "e", "t", "e", "e", "n">> :> 19) @@ (<<"t", "w", "e", "n", "t", "y">> :> 20) @@
    (<<"t", "h", "i", "r", "t", "y">> :> 30) @@ (<<"f", "o", "r", "t", "y">> :> 40) @@ (<<"f", "i", "f", "t", "y">> :> 50) @@
    (<<"s", "i", "x", "t", "y">> :> 60) @@ (<<"s", "e", "v", "e", "n", "t", "y">> :> 70) @@ (<<"e", "i", "g", "h", "t", "y">> :> 80) @@
    (<<"n", "i", "n", "e", "t", "y">> :> 90) @@ (<<"h", "u", "n", "d", "r", "e", "d">> :> 100) @@ (<<"t", "h", "o", "u", "s", "a", "n", "d">> :> 1000)

\* text.lower()
str_lower(s) == [i \in 1..Len(s) |-> char_lower(s[i])]

\* [from, to] of the first whitespace-delimited token of s at or after from
TokenStart(s, from) ==
    CHOOSE i \in from..Len(s) :
        ~IsSpace(s[i]) /\ \A k \in from..(i - 1) : IsSpace(s[k])

TokenEnd(s, i) ==
    CHOOSE j \in i..Len(s) :
        (j = Len(s) \/ IsSpace(s[j + 1])) /\ \A k \in i..j : ~IsSpace(s[k])

RECURSIVE token_spans_from(_, _)
token_spans_from(s, from) ==
    IF \A i \in from..Len(s) : IsSpace(s[i])
    THEN <<>>
    ELSE LET i == TokenStart(s, from)
             j == TokenEnd(s, i)
         IN  <<<<i, j>>>> \o token_spans_from(s, j + 1)

\* the places of the tokens of s
token_spans(s) == token_spans_from(s, 1)

\* str.split(): the whitespace-delimited tokens, none empty
str_split(s) ==
    LET spans == token_spans(s)
    IN  [k \in 1..Len(spans) |-> SubSeq(s, spans[k][1], spans[k][2])]

KeepWordOrSpace(c) == IsWordChar(c) \/ IsSpace(c)

\* re.sub(r'[^\w\s]', '', word)
re_sub_punctuation(word) == SelectSeq(word, KeepWordOrSpace)

\* line 65, faulty variant: no special case for a bare "hundred"
hundred_always_multiplies(current) == current * 100

\* line 65: current * 100 if current else 100
hundred_branch(current) == IF current # 0 THEN current * 100 ELSE 100

\* lines 67-69, faulty variant: current is not reset
thousand_keeps_current(st) ==
    LET c == (IF st.current # 0 THEN st.current ELSE 1) * 1000
    IN  [total |-> st.total + c, current |-> c]

\* lines 67-69: the thousands group is closed into total
thousand_branch(st) ==
    LET c == (IF st.current # 0 THEN st.current ELSE 1) * 1000
    IN  [total |-> st.total + c, current |-> 0]

\* lines 61-71, faulty variant: an unknown word resets current
known_word_or_reset(st, word) ==
    IF word \in DOMAIN words_to_numbers
    THEN LET num == words_to_numbers[word]
         IN  IF num = 100 THEN [st EXCEPT !.current = hundred_branch(st.current)]
             ELSE IF num = 1000 THEN thousand_branch(st)
             ELSE [st EXCEPT !.current = @ + num]
    ELSE [st EXCEPT !.current = 0]

\* lines 61-71: one known word updates the accumulators, any other is skipped
if_word_in_table(st, word) ==
    IF word \in DOMAIN words_to_numbers
    THEN LET num == words_to_numbers[word]
         IN  IF num = 100 THEN [st EXCEPT !.current = hundred_branch(st.current)]
             ELSE IF num = 1000 THEN thousand_branch(st)
             ELSE [st EXCEPT !.current = @ + num]
    ELSE st

\* lines 57-71: the body of the for loop
for_body(st, w) == if_word_in_table(st, re_sub_punctuation(w))

RECURSIVE for_loop(_, _, _)
for_loop(words, i, st) ==
    IF i > Len(words) THEN st ELSE for_loop(words, i + 1, for_body(st, words[i]))

\* line 74, faulty variant: the total, zero included
return_any_total(total) == PyInt(total)

\* line 74: total if total > 0 else None
return_total(total) == IF total > 0 THEN PyInt(total) ELSE None

\* lines 53-74: the word path
word_path(s) ==
    LET words == str_split(str_lower(s))
        st    == for_loop(words, 1, [total |-> 0, current |-> 0])
    IN  return_total(st.total + st.current)

\* lines 27-74
extract_amount(s) ==
    LET digits == re_findall_digits(s)
    IN  IF digits # <<>> THEN int(digits[1]) ELSE word_path(s)

---------------------------------------------------------------------------
(* Inputs: the transcripts the behaviours draw *)

\* a digit run one digit longer than int() converts
LongDigitRun == [i \in 1..(int_max_str_digits + 1) |-> "9"]

\* transcripts without any digit
WordSeeds ==
    { <<>>, <<"h", "e", "l", "l", "o", " ", "w", "o", "r", "l", "d">>, <<"z", "e", "r", "o">>, <<"f", "i", "v", "e">>, <<"t", "w", "e", "n", "t", "y", " ", "t", "h", "r", "e", "e">>, <<"o", "n", "e", " ", "h", "u", "n", "d", "r", "e", "d">>,
      <<"t", "w", "o", " ", "t", "h", "o", "u", "s", "a", "n", "d">>, <<"o", "n", "e", " ", "t", "h", "o", "u", "s", "a", "n", "d", " ", "t", "w", "o", " ", "h", "u", "n", "d", "r", "e", "d", " ", "f", "i", "f", "t", "y">>, <<"h", "u", "n", "d", "r", "e", "d">>,
      <<"t", "h", "o", "u", "s", "a", "n", "d">>, <<"T", "W", "E", "N", "T", "Y">>, <<"T", "w", "E", "n", "T", "y">>, <<"t", "w", "e", "n", "t", "y", ",", " ", "t", "h", "r", "e", "e", ".">>, <<" ", " ", "\t">>,
      <<".", ",", "!">>, <<"f", "i", "v", "e", " ", "h", "u", "n", "d", "r", "e", "d", " ", "a", "n", "d", " ", "s", "i", "x", " ", "r", "u", "p", "e", "e", "s">> }

\* transcripts with a digit
DigitSeeds ==
    { <<"p", "a", "y", " ", "0", " ", "d", "o", "l", "l", "a", "r", "s">>, <<"p", "a", "y", " ", "5", "0", " ", "d", "o", "l", "l", "a", "r", "s">>, <<"t", "w", "e", "n", "t", "y", " ", "d", "o", "l", "l", "a", "r", "s", " ", "a", "n", "d", " ", "5", " ", "c", "e", "n", "t", "s">>,
      <<"1", "2", ".", "5", "0">>, <<"0", "0", "7">>, LongDigitRun }

Seeds == WordSeeds \cup DigitSeeds

\* what a transcript is extended with
Pieces ==
    { <<" ">>, <<"t", "w", "e", "n", "t", "y">>, <<"h", "u", "n", "d", "r", "e", "d">>, <<"t", "h", "o", "u", "s", "a", "n", "d">>, <<"z", "e", "r", "o">>, <<"a", "n", "d">>, <<"5">>, <<"0">> }

---------------------------------------------------------------------------
(* The extractor called on one transcript *)

HandlerIdle ==
    /\ hpc = "idle"
    /\ has_audio = FALSE
    /\ created = FALSE
    /\ exists = FALSE
    /\ transcribed = "no"
    /\ transcribed_text = <<>>
    /\ amount = Unset
    /\ pending = "none"
    /\ response = NoResponse
    /\ responses = 0
    /\ transcribe_calls = 0

Init ==
    /\ text \in Seeds
    /\ variant = <<>>
    /\ result = Unset
    /\ vresult = Unset
    /\ pc = "input"
    /\ steps = 0
    /\ mode = "single"
    /\ n = 0
    /\ HandlerIdle

\* the caller's transcript grows by one piece
AppendPiece(p) ==
    /\ pc = "input"
    /\ steps < MaxPieces
    /\ text' = text \o p
    /\ steps' = steps + 1
    /\ UNCHANGED <<result, variant, vresult, pc, mode, n>>
    /\ UNCHANGED handler_vars

\* the call extract_amount(text)
Extract ==
    /\ pc = "input"
    /\ result' = extract_amount(text)
    /\ pc' = "done"
    /\ UNCHANGED <<text, variant, vresult, steps, mode, n>>
    /\ UNCHANGED handler_vars

Next ==
    \/ \E p \in Pieces : AppendPiece(p)
    \/ Extract

Spec == Init /\ [][Next]_vars

---------------------------------------------------------------------------
(* The extractor called on a transcript and on an edited copy of it *)

\* the normal form under which a token is looked up (lines 55 and 59)
Normal(tok) == re_sub_punctuation(str_lower(tok))

\* a token the word path does not recognise and that brings no digit
IsFiller(tok) == ~HasDigit(tok) /\ Normal(tok) \notin DOMAIN words_to_numbers

\* filler tokens to insert
Fillers == { <<"a", "n", "d">>, <<"r", "u", "p", "e", "e", "s">>, <<"t", "w", "e", "n", "t", "y", "_">> }

\* digit-free transcripts to put filler into and to take filler out of
FillerSeeds ==
    { <<>>, <<"f", "i", "v", "e">>, <<"t", "w", "e", "n", "t", "y", " ", "t", "h", "r", "e", "e">>, <<"z", "e", "r", "o">>, <<"h", "e", "l", "l", "o", " ", "w", "o", "r", "l", "d">>, <<"t", "h", "o", "u", "s", "a", "n", "d">>,
      <<"t", "w", "o", ",", " ", "T", "h", "o", "u", "s", "a", "n", "d", ".">>, <<"o", "n", "e", " ", "h", "u", "n", "d", "r", "e", "d", " ", "a", "n", "d", " ", "s", "i", "x", " ", "d", "o", "l", "l", "a", "r", "s">> }

\* characters that are neither alphanumeric nor whitespace
Marks == { ",", ".", "-", "_", "$" }

\* transcripts whose letters change case
CaseSeeds ==
    { <<"t", "w", "e", "n", "t", "y">>, <<"T", "W", "E", "N", "T", "Y">>, <<"T", "w", "E", "n", "T", "y">>, <<"o", "n", "e", " ", "h", "u", "n", "d", "r", "e", "d">>, <<"T", "w", "o", " ", "T", "h", "o", "u", "s", "a", "n", "d">>,
      <<"p", "a", "y", " ", "5", "0", " ", "D", "o", "l", "l", "a", "r", "s">>, <<"1", "2", ".", "5", "0">>, <<"f", "dotless_i", "v", "e">>, <<"h", "e", "l", "l", "o">>, <<>> }

InitEdit(kind, seeds) ==
    /\ text \in seeds
    /\ variant = text
    /\ result = Unset
    /\ vresult = Unset
    /\ pc = "edit"
    /\ steps = 0
    /\ mode = kind
    /\ n = 0
    /\ HandlerIdle

\* a position between two characters of s that is not inside a token
AtTokenBoundary(s, p) ==
    IF p = 0 \/ p = Len(s) THEN TRUE ELSE IsSpace(s[p]) \/ IsSpace(s[p + 1])

\* a whitespace-delimited filler token is put into the variant
InsertFiller(p, f) ==
    /\ pc = "edit"
    /\ steps < MaxEdits
    /\ p \in 0..Len(variant)
    /\ AtTokenBoundary(variant, p)
    /\ variant' = SubSeq(variant, 1, p) \o <<" ">> \o f \o <<" ">>
                  \o SubSeq(variant, p + 1, Len(variant))
    /\ steps' = steps + 1
    /\ UNCHANGED <<text, result, vresult, pc, mode, n>>
    /\ UNCHANGED handler_vars

\* a filler token is taken out of the variant
RemoveFiller(k) ==
    /\ pc = "edit"
    /\ steps < MaxEdits
    /\ k \in 1..Len(token_spans(variant))
    /\ LET span == token_spans(variant)[k]
       IN  /\ IsFiller(SubSeq(variant, span[1], span[2]))
           /\ variant' = SubSeq(variant, 1, span[1] - 1)
                         \o SubSeq(variant, span[2] + 1, Len(variant))
    /\ steps' = steps + 1
    /\ UNCHANGED <<text, result, vresult, pc, mode, n>>
    /\ UNCHANGED handler_vars

\* a mark is attached to the start or to the end of the k-th token of the variant
AttachMark(k, atStart, c) ==
    /\ pc = "edit"
    /\ steps < MaxEdits
    /\ k \in 1..Len(token_spans(variant))
    /\ LET span == token_spans(variant)[k]
           p    == IF atStart THEN span[1] - 1 ELSE span[2]
       IN  variant' = SubSeq(variant, 1, p) \o <<c>>
                      \o SubSeq(variant, p + 1, Len(variant))
    /\ steps' = steps + 1
    /\ UNCHANGED <<text, result, vresult, pc, mode, n>>
    /\ UNCHANGED handler_vars

\* the other case forms of a character: its str.upper() and its str.lower()
OtherCases(c) == {char_upper(c), char_lower(c)} \ {c}

\* the letter at position i of the variant changes case
ChangeCase(i) ==
    /\ pc = "edit"
    /\ steps < MaxEdits
    /\ i \in 1..Len(variant)
    /\ \E c \in OtherCases(variant[i]) : variant' = [variant EXCEPT ![i] = c]
    /\ steps' = steps + 1
    /\ UNCHANGED <<text, result, vresult, pc, mode, n>>
    /\ UNCHANGED handler_vars

\* the calls extract_amount(text) and extract_amount(variant)
ExtractBoth ==
    /\ pc = "edit"
    /\ result' = extract_amount(text)
    /\ vresult' = extract_amount(variant)
    /\ pc' = "done"
    /\ UNCHANGED <<text, variant, steps, mode, n>>
    /\ UNCHANGED handler_vars

InitFiller == InitEdit("filler", FillerSeeds)

NextFiller ==
    \/ \E p \in 0..Len(variant), f \in Fillers : InsertFiller(p, f)
    \/ \E k \in 1..Len(variant) : RemoveFiller(k)
    \/ ExtractBoth

SpecFiller == InitFiller /\ [][NextFiller]_vars

InitMark == InitEdit("mark", WordSeeds)

NextMark ==
    \/ \E k \in 1..Len(variant), atStart \in BOOLEAN, c \in Marks : AttachMark(k, atStart, c)
    \/ ExtractBoth

SpecMark == InitMark /\ [][NextMark]_vars

InitCase == InitEdit("case", CaseSeeds)

NextCase ==
    \/ \E i \in 1..Len(variant) : ChangeCase(i)
    \/ ExtractBoth

SpecCase == InitCase /\ [][NextCase]_vars

---------------------------------------------------------------------------
(* The extractor called on the English cardinal phrase of an integer *)

\* the table word of a value
WordOf(v) == CHOOSE w \in DOMAIN words_to_numbers : words_to_numbers[w] = v

\* the words of a number below one hundred (none for 0)
BelowHundredWords(r) ==
    IF r = 0 THEN <<>>
    ELSE IF r <= 20 THEN <<WordOf(r)>>
    ELSE IF r % 10 = 0 THEN <<WordOf(r)>>
    ELSE <<WordOf(r - (r % 10)), WordOf(r % 10)>>

\* the words of a group 0..999, with "and" after "hundred" when asked for
GroupWords(g, withAnd) ==
    (IF g >= 100 THEN <<WordOf(g \div 100), <<"h", "u", "n", "d", "r", "e", "d">>>> ELSE <<>>)
    \o (IF withAnd /\ g >= 100 /\ g % 100 # 0 THEN <<<<"a", "n", "d">>>> ELSE <<>>)
    \o BelowHundredWords(g % 100)

\* the words of hi thousand lo
PhraseWords(hi, lo, withAnd) ==
    (IF hi > 0 THEN GroupWords(hi, withAnd) \o <<<<"t", "h", "o", "u", "s", "a", "n", "d">>>> ELSE <<>>)
    \o (IF withAnd /\ hi > 0 /\ lo > 0 /\ lo < 100 THEN <<<<"a", "n", "d">>>> ELSE <<>>)
    \o GroupWords(lo, withAnd)

RECURSIVE JoinWithSpaces(_)
JoinWithSpaces(ws) ==
    IF ws = <<>> THEN <<>>
    ELSE IF Len(ws) = 1 THEN ws[1]
    ELSE ws[1] \o <<" ">> \o JoinWithSpaces(Tail(ws))

\* the three-digit groups the phrases are built from
Groups ==
    (0..MaxSmallGroup)
    \cup {30, 40, 45, 50, 60, 70, 80, 90, 99, 100, 101, 110, 113, 120, 199, 200,
          345, 500, 611, 780, 900, 909, 919, 990, 999}

InitPhrase ==
    /\ text = <<>>
    /\ variant = <<>>
    /\ result = Unset
    /\ vresult = Unset
    /\ pc = "choose"
    /\ steps = 0
    /\ mode = "phrase"
    /\ n = 0
    /\ HandlerIdle

\* the caller spells out hi * 1000 + lo
Spell(hi, lo, withAnd) ==
    /\ pc = "choose"
    /\ hi * 1000 + lo >= 1
    /\ n' = hi * 1000 + lo
    /\ text' = JoinWithSpaces(PhraseWords(hi, lo, withAnd))
    /\ pc' = "input"
    /\ UNCHANGED <<result, variant, vresult, steps, mode>>
    /\ UNCHANGED handler_vars

NextPhrase ==
    \/ \E hi \in Groups, lo \in Groups, withAnd \in BOOLEAN : Spell(hi, lo, withAnd)
    \/ Extract

SpecPhrase == InitPhrase /\ [][NextPhrase]_vars

---------------------------------------------------------------------------
(* transcribe_audio: one POST /transcribe request *)

ExtractorIdle ==
    /\ text = <<>>
    /\ variant = <<>>
    /\ result = Unset
    /\ vresult = Unset
    /\ pc = "idle"
    /\ steps = 0
    /\ mode = "request"
    /\ n = 0

\* lines 108-114: jsonify(response), status 200
SuccessResponse(t, a) ==
    [status |-> 200, body |-> [success |-> TRUE, text |-> t, amount |-> a]]

\* lines 89 and 122: jsonify({'error': ...}), status
ErrorResponse(code, msg) == [status |-> code, body |-> [error |-> msg]]

\* the transcripts model.transcribe may produce
Transcripts == Seeds

InitRequest ==
    /\ ExtractorIdle
    /\ hpc = "check"
    /\ has_audio \in BOOLEAN
    /\ created = FALSE
    /\ exists = FALSE
    /\ transcribed = "no"
    /\ transcribed_text = <<>>
    /\ amount = Unset
    /\ pending = "none"
    /\ response = NoResponse
    /\ responses = 0
    /\ transcribe_calls = 0

\* lines 88-91: the request must carry an 'audio' part
CheckAudio ==
    /\ hpc = "check"
    /\ IF has_audio
       THEN /\ hpc' = "create"
            /\ UNCHANGED <<response, responses>>
       ELSE /\ response' = ErrorResponse(400, "No audio file provided")
            /\ responses' = responses + 1
            /\ hpc' = "done"
    /\ UNCHANGED <<has_audio, created, exists, transcribed, transcribed_text,
                   amount, pending, transcribe_calls>>
    /\ UNCHANGED extractor_vars

\* line 94: tempfile.NamedTemporaryFile(delete=False, suffix='.wav')
CreateTemp ==
    /\ hpc = "create"
    /\ \/ /\ created' = TRUE
          /\ exists' = TRUE
          /\ hpc' = "save"
       \/ /\ hpc' = "except"
          /\ UNCHANGED <<created, exists>>
    /\ UNCHANGED <<has_audio, transcribed, transcribed_text, amount, pending,
                   response, responses, transcribe_calls>>
    /\ UNCHANGED extractor_vars

\* lines 95-96: audio_file.save(temp_audio.name) inside the with block; leaving
\* the block closes the file and, delete being False, keeps it on disk
SaveUpload ==
    /\ hpc = "save"
    /\ \/ hpc' = "transcribe"
       \/ hpc' = "except"
    /\ UNCHANGED <<has_audio, created, exists, transcribed, transcribed_text,
                   amount, pending, response, responses, transcribe_calls>>
    /\ UNCHANGED extractor_vars

\* lines 98-103: model.transcribe(temp_path, language="en") and result["text"]
Transcribe ==
    /\ hpc = "transcribe"
    /\ transcribe_calls' = transcribe_calls + 1
    /\ \/ /\ \E t \in Transcripts : transcribed_text' = t
          /\ transcribed' = "ok"
          /\ hpc' = "extract"
          /\ UNCHANGED pending
       \/ /\ transcribed' = "failed"
          /\ pending' = "raise"
          /\ hpc' = "finally"
          /\ UNCHANGED transcribed_text
    /\ UNCHANGED <<has_audio, created, exists, amount, response, responses>>
    /\ UNCHANGED extractor_vars

\* line 106: amount = extract_amount(transcribed_text)
ExtractAmount ==
    /\ hpc = "extract"
    /\ amount' = extract_amount(transcribed_text)
    /\ IF amount'.tag = "raise"
       THEN pending' = "raise" /\ hpc' = "finally"
       ELSE pending' = "none" /\ hpc' = "respond"
    /\ UNCHANGED <<has_audio, created, exists, transcribed, transcribed_text,
                   response, responses, transcribe_calls>>
    /\ UNCHANGED extractor_vars

\* lines 108-114: return jsonify(response), which runs the finally clause first
BuildResponse ==
    /\ hpc = "respond"
    /\ pending' = "return"
    /\ hpc' = "finally"
    /\ UNCHANGED <<has_audio, created, exists, transcribed, transcribed_text,
                   amount, response, responses, transcribe_calls>>
    /\ UNCHANGED extractor_vars

\* lines 116-118: os.unlink(temp_path); an OSError it raises replaces whatever
\* the try block was leaving with
Finally ==
    /\ hpc = "finally"
    /\ \/ /\ exists' = FALSE
          /\ IF pending = "return"
             THEN /\ response' = SuccessResponse(transcribed_text, amount)
                  /\ responses' = responses + 1
                  /\ hpc' = "done"
             ELSE /\ hpc' = "except"
                  /\ UNCHANGED <<response, responses>>
          /\ UNCHANGED pending
       \/ /\ pending' = "raise"
          /\ hpc' = "except"
          /\ UNCHANGED <<exists, response, responses>>
    /\ UNCHANGED <<has_audio, created, transcribed, transcribed_text, amount,
                   transcribe_calls>>
    /\ UNCHANGED extractor_vars

\* lines 120-122: except Exception: return the error with status 500
Except ==
    /\ hpc = "except"
    /\ response' = ErrorResponse(500, "str(e)")
    /\ responses' = responses + 1
    /\ hpc' = "done"
    /\ UNCHANGED <<has_audio, created, exists, transcribed, transcribed_text,
                   amount, pending, transcribe_calls>>
    /\ UNCHANGED extractor_vars

NextRequest ==
    \/ CheckAudio
    \/ CreateTemp
    \/ SaveUpload
    \/ Transcribe
    \/ ExtractAmount
    \/ BuildResponse
    \/ Finally
    \/ Except

SpecRequest == InitRequest /\ [][NextRequest]_vars

---------------------------------------------------------------------------
(* What the claims say, stated without the code's own operators *)

\* s[i..j] is the first maximal run of digits of s
IsFirstDigitRun(s, i, j) ==
    /\ \A k \in 1..(i - 1) : ~IsDigit(s[k])
    /\ \A k \in i..j : IsDigit(s[k])
    /\ j = Len(s) \/ ~IsDigit(s[j + 1])

RECURSIVE Pow10(_)
Pow10(e) == IF e = 0 THEN 1 ELSE 10 * Pow10(e - 1)

RECURSIVE SumOver(_, _)
SumOver(f, S) ==
    IF S = {} THEN 0
    ELSE LET x == CHOOSE y \in S : TRUE IN f[x] + SumOver(f, S \ {x})

\* the value of a digit string, digit by digit
PositionalValue(s) ==
    SumOver([k \in 1..Len(s) |-> DigitValue(s[k]) * Pow10(Len(s) - k)], 1..Len(s))

\* the tokens of a transcript as the word path looks them up
LookedUpTokens(s) ==
    LET words == str_split(str_lower(s))
    IN  [k \in 1..Len(words) |-> re_sub_punctuation(words[k])]

\* the fold of the claim: accumulators <<current, total>> from <<0, 0>>
FoldOfTokens(toks) ==
    LET acc[i \in 0..Len(toks)] ==
            IF i = 0 THEN <<0, 0>>
            ELSE LET current == acc[i - 1][1]
                     total   == acc[i - 1][2]
                     w       == toks[i]
                 IN  IF w = <<"h", "u", "n", "d", "r", "e", "d">>
                     THEN <<IF current # 0 THEN current * 100 ELSE 100, total>>
                     ELSE IF w = <<"t", "h", "o", "u", "s", "a", "n", "d">>
                     THEN <<0, total + (IF current # 0 THEN current ELSE 1) * 1000>>
                     ELSE IF w \in DOMAIN words_to_numbers
                     THEN <<current + words_to_numbers[w], total>>
                     ELSE acc[i - 1]
    IN  acc[Len(toks)][2] + acc[Len(toks)][1]

Returned(r) == r = None \/ r.tag = "int"

---------------------------------------------------------------------------
(* C1 *)

\* C1 (as claimed): for every transcript that contains a digit, extract_amount
\* returns exactly the integer value of the first maximal run of digits, whatever
\* surrounds it: "twenty dollars and 5 cents" gives 5 and "12.50" gives 12.
C1_FirstDigitRunValue ==
    (pc = "done" /\ mode = "single" /\ HasDigit(text)) =>
        /\ result.tag = "int"
        /\ \E i \in 1..Len(text) : \E j \in i..Len(text) :
              /\ IsFirstDigitRun(text, i, j)
              /\ result.val = PositionalValue(SubSeq(text, i, j))
        /\ text = <<"t", "w", "e", "n", "t", "y", " ", "d", "o", "l", "l", "a", "r", "s", " ", "a", "n", "d", " ", "5", " ", "c", "e", "n", "t", "s">> => result = PyInt(5)
        /\ text = <<"1", "2", ".", "5", "0">> => result = PyInt(12)

---------------------------------------------------------------------------
(* C2 *)

\* C2 (as claimed): for every transcript without a digit, extract_amount equals
\* the left-to-right fold over its tokens, total + current being the result.
C2_FoldIsTheResult ==
    (pc = "done" /\ mode = "single" /\ ~HasDigit(text)) =>
        result = PyInt(FoldOfTokens(LookedUpTokens(text)))

C2_Examples ==
    /\ text = <<"f", "i", "v", "e">> => result = PyInt(5)
    /\ text = <<"t", "w", "e", "n", "t", "y", " ", "t", "h", "r", "e", "e">> => result = PyInt(23)
    /\ text = <<"o", "n", "e", " ", "h", "u", "n", "d", "r", "e", "d">> => result = PyInt(100)
    /\ text = <<"t", "w", "o", " ", "t", "h", "o", "u", "s", "a", "n", "d">> => result = PyInt(2000)
    /\ text = <<"o", "n", "e", " ", "t", "h", "o", "u", "s", "a", "n", "d", " ", "t", "w", "o", " ", "h", "u", "n", "d", "r", "e", "d", " ", "f", "i", "f", "t", "y">> => result = PyInt(1250)
    /\ text = <<"h", "u", "n", "d", "r", "e", "d">> => result = PyInt(100)
    /\ text = <<"t", "h", "o", "u", "s", "a", "n", "d">> => result = PyInt(1000)

\* C2 (amended): for every transcript without a digit, extract_amount equals the
\* left-to-right fold over its tokens (hundred: current * 100 or 100; thousand:
\* (current or 1) * 1000 into total, current reset; any other table word added to
\* current), and total + current is the result when it is positive, None when it
\* is zero; "five" gives 5, "twenty three" 23, "one hundred" 100, "two thousand"
\* 2000, "one thousand two hundred fifty" 1250, "hundred" 100, "thousand" 1000.
C2_FoldIsTheResultUnlessZero ==
    (pc = "done" /\ mode = "single" /\ ~HasDigit(text)) =>
        /\ LET v == FoldOfTokens(LookedUpTokens(text))
           IN  result = IF v > 0 THEN PyInt(v) ELSE None
        /\ C2_Examples

\* C2: a thousands group followed by a hundreds group has been folded
C2_Witness ==
    /\ pc = "done"
    /\ text = <<"o", "n", "e", " ", "t", "h", "o", "u", "s", "a", "n", "d", " ", "t", "w", "o", " ", "h", "u", "n", "d", "r", "e", "d", " ", "f", "i", "f", "t", "y">>
    /\ result = PyInt(1250)

---------------------------------------------------------------------------
(* C3 *)

\* C3 (as claimed): whenever extract_amount returns, it returns a strictly
\* positive integer or None; the integer 0 is never returned, so "pay 0 dollars"
\* and "zero" give the same None as "" and "hello world".
C3_ZeroIsNeverReturned ==
    (pc = "done" /\ mode = "single" /\ Returned(result)) =>
        /\ result = None \/ result.val > 0
        /\ text \in {<<"p", "a", "y", " ", "0", " ", "d", "o", "l", "l", "a", "r", "s">>, <<"z", "e", "r", "o">>, <<>>, <<"h", "e", "l", "l", "o", " ", "w", "o", "r", "l", "d">>} => result = None

\* C3 (amended): for every transcript without a digit, extract_amount returns a
\* strictly positive integer or None, and one whose recognised amount is zero
\* (the word "zero") yields the same None as one with nothing recognised ("" or
\* "hello world"); on the digit path the integer 0 can be returned: "pay 0 dollars"
\* yields 0, which differs from None.
C3_ZeroIsNoneOnTheWordPath ==
    (pc = "done" /\ mode = "single") =>
        /\ ~HasDigit(text) => result = None \/ (result.tag = "int" /\ result.val > 0)
        /\ (~HasDigit(text) /\ FoldOfTokens(LookedUpTokens(text)) = 0) => result = None
        /\ text \in {<<"z", "e", "r", "o">>, <<>>, <<"h", "e", "l", "l", "o", " ", "w", "o", "r", "l", "d">>} => result = None
        /\ text = <<"p", "a", "y", " ", "0", " ", "d", "o", "l", "l", "a", "r", "s">> => result = PyInt(0)

\* C3: the word "zero" has been recognised and its amount reported as None
C3_Witness ==
    /\ pc = "done"
    /\ text = <<"z", "e", "r", "o">>
    /\ FoldOfTokens(LookedUpTokens(text)) = 0
    /\ result = None

---------------------------------------------------------------------------
(* C4 *)

\* C4 (as claimed): extract_amount never fails: for every input string the call
\* returns a non-negative integer or None, never an exception.
C4_NeverRaises ==
    (pc = "done" /\ mode = "single") =>
        \/ result = None
        \/ result.tag = "int" /\ result.val >= 0

---------------------------------------------------------------------------
(* C5 *)

---------------------------------------------------------------------------
(* C6 *)

\* C6 (as claimed): attaching characters that are neither alphanumeric nor
\* whitespace (comma, period, hyphen, underscore, currency sign) to the start or
\* end of a token of a digit-free transcript does not change the result;
\* "twenty, three." gives 23.
C6_MarksLeaveResult ==
    (pc = "done" /\ mode = "mark") =>
        /\ vresult = result
        /\ text = <<"t", "w", "e", "n", "t", "y", ",", " ", "t", "h", "r", "e", "e", ".">> => result = PyInt(23)

---------------------------------------------------------------------------
(* C7 *)

\* the variant differs from the text in ASCII letters only
OnlyAsciiLettersChanged ==
    \A i \in 1..Len(text) : variant[i] # text[i] => IsAsciiLetter(text[i])

\* C7 (as claimed): for every transcript, changing the case of any subset of
\* its letters leaves the result of extract_amount unchanged.
C7_CaseLeavesResult ==
    (pc = "done" /\ mode = "case") => vresult = result

\* C7 (amended): for every transcript, changing the case of any subset of its
\* ASCII letters (A-Z, a-z) leaves the result of extract_amount unchanged
\* (extract("TWENTY") = extract("twenty") = extract("TwEnTy") = 20), on both the
\* word path and the digit path.
C7_AsciiCaseLeavesResult ==
    (pc = "done" /\ mode = "case") =>
        /\ OnlyAsciiLettersChanged => vresult = result
        /\ text \in {<<"T", "W", "E", "N", "T", "Y">>, <<"t", "w", "e", "n", "t", "y">>, <<"T", "w", "E", "n", "T", "y">>} => result = PyInt(20)

\* C7: two letters of "twenty" were put in upper case and the result is still 20
C7_Witness ==
    /\ pc = "done"
    /\ mode = "case"
    /\ text = <<"t", "w", "e", "n", "t", "y">>
    /\ variant = <<"T", "W", "e", "n", "t", "y">>
    /\ vresult = PyInt(20)

---------------------------------------------------------------------------
(* C8 *)

\* C8 (as claimed): in every execution in which the temporary file has been
\* created, the file has been deleted by the time the response is returned.
C8_TempFileReleased ==
    (hpc = "done" /\ created) => ~exists

---------------------------------------------------------------------------
(* C9 *)

\* C9 (as claimed): every request ends in exactly one response; if the audio is
\* present and transcription succeeds it is the success response with the text
\* and the amount; if the audio part is missing or the transcription call fails,
\* transcription is not retried and the response carries status 400 or 500 and
\* no success flag.
C9_ResponseFollowsTranscription ==
    hpc = "done" =>
        /\ responses = 1
        /\ (has_audio /\ transcribed = "ok") =>
              /\ response.status = 200
              /\ response = SuccessResponse(transcribed_text, amount)
        /\ (~has_audio \/ transcribed = "failed") =>
              /\ transcribe_calls <= 1
              /\ response.status \in {400, 500}
              /\ "success" \notin DOMAIN response.body

---------------------------------------------------------------------------
(* C10 *)

\* C10: for every integer n the behaviours spell (1 <= n <= 999999), extract_amount
\* applied to the English cardinal phrase of n, written as space-separated table
\* words with an optional filler "and", returns n.
C10_PhraseRoundTrip ==
    (pc = "done" /\ mode = "phrase") => result = PyInt(n)

\* C10: a phrase with a thousands group and a remainder has been read back
C10_Witness ==
    /\ pc = "done"
    /\ mode = "phrase"
    /\ n = 200345
    /\ text = <<"t", "w", "o", " ", "h", "u", "n", "d", "r", "e", "d", " ", "t", "h", "o", "u", "s", "a", "n", "d", " ", "t", "h", "r", "e", "e", " ", "h", "u", "n", "d", "r", "e", "d", " ", "f", "o", "r", "t", "y", " ", "f", "i", "v", "e">>
    /\ result = PyInt(200345)

=============================================================================
